---- MODULE Spec2Model ----
(***************************************************************************)
(* Model of vdp_scanner.py: the fallback chain of VdpScanner.check_for_vdp *)
(* (HTTPS verified -> HTTPS unverified -> HTTP), the tallying done by      *)
(* VdpScanner.add_domain_result, and the loop of main() that drives them.  *)
(* UrlHasher.hash_url is an external service: each call returns a          *)
(* UrlResult or raises one of four kinds of exception, chosen freely.      *)
(***************************************************************************)
EXTENDS Integers, Sequences, FiniteSets, TLC

VARIABLES
    domains_to_scan,  \* main(): the list supplied by the domain source
    queue,            \* main(): sorted(domains_to_scan, key=Domain Name)
    i,                \* main(): position of the loop in queue (enumerate, start=1)
    pc,               \* control position
    domain_info,      \* main(): the record being processed
    url,              \* check_for_vdp: parsed candidate URL (None outside process_domain)
    result,           \* check_for_vdp: Optional[UrlResult]
    vdp_result,       \* process_domain: tuple returned by check_for_vdp (<< >> until then)
    calls,            \* hash_url invocations of the loop iteration in progress
    log,              \* logging records of the loop iteration in progress
    agency_results,   \* VdpScanner.agency_results (defaultdict)
    domain_results,   \* VdpScanner.domain_results (list of dicts)
    csv_out,          \* CSV files written so far, in order
    feed,             \* replay: the DomainResults handed to add_domain_result in each run
    run,              \* replay: number of the run in progress
    previous          \* replay: what the scanner of the earlier run ended with

vars == <<domains_to_scan, queue, i, pc, domain_info, url, result, vdp_result,
          calls, log, agency_results, domain_results, csv_out, feed, run, previous>>

replay_vars == <<feed, run, previous>>

main_vars == <<domains_to_scan, queue, pc, domain_info, url, result, vdp_result,
               calls, log, csv_out>>

-----------------------------------------------------------------------------
(* Bounds *)

MaxDomains == 2

-----------------------------------------------------------------------------
(* Python values *)

None == [none |-> TRUE]

\* Truthiness of a str: the empty string is falsy.
Truthy(s) == s # ""

MISSING_SECURITY_CONTACT == "(blank)"

agency_csv_header ==
    << "Agency",
       "Total Domains",
       "Domains with Security Contact Listed",
       "Domains with Organization Listed",
       "Domains with Matching Organization and Agency",
       "Domains with Published VDP" >>

domain_csv_header ==
    << "Domain",
       "Agency",
       "Organization",
       "Security Contact Email",
       "Visited URL",
       "Was it Redirected",
       "VDP is Published",
       "VDP Hash" >>

\* dict(zip(keys, values)): pairs up to the shorter length, later keys win.
Min(a, b) == IF a <= b THEN a ELSE b

ZipDict(keys, values) ==
    LET n == Min(Len(keys), Len(values))
    IN  [k \in {keys[j] : j \in 1..n} |->
            values[CHOOSE j \in 1..n : keys[j] = k /\ \A m \in 1..n : keys[m] = k => m <= j]]

\* DomainResult NamedTuple: positional fields.
DomainResult(domain, agency, organization, security_contact, outcome) ==
    <<domain, agency, organization, security_contact>> \o outcome

DR_agency(r) == r[2]
DR_organization(r) == r[3]
DR_security_contact(r) == r[4]
DR_vdp_present(r) == r[7]

-----------------------------------------------------------------------------
(* Input: rows of the domain CSV *)

CsvRow(d, a, o, c) ==
    [k \in {"Domain Name", "Agency", "Organization", "Security Contact Email"} |->
        CASE k = "Domain Name" -> d
          [] k = "Agency" -> a
          [] k = "Organization" -> o
          [] OTHER -> c]

DomainRecords ==
    { CsvRow("a.gov", "ACME", "ACME", "sec@acme.gov"),
      CsvRow("b.gov", "ACME", "", "(blank)"),
      CsvRow("b.gov", "NASA", "ACME", ""),
      CsvRow("c.gov", "", "", "sec@acme.gov") }

\* Domain names in ascending str order (the order sorted() compares by).
NameOrder == <<"a.gov", "b.gov", "c.gov">>

NameRank(n) == CHOOSE j \in 1..Len(NameOrder) : NameOrder[j] = n

SeqsUpTo(S, n) == UNION {[1..m -> S] : m \in 0..n}

\* Variant: the list is processed as supplied.
SortedByName_AsSupplied(xs) == xs

\* sorted(xs, key=lambda d: d["Domain Name"]): stable insertion by key.
RECURSIVE SortedByName(_)
SortedByName(xs) ==
    IF xs = <<>> THEN <<>>
    ELSE LET init == SortedByName(SubSeq(xs, 1, Len(xs) - 1))
             x    == xs[Len(xs)]
             keep == {j \in 1..Len(init) :
                        NameRank(init[j]["Domain Name"]) <= NameRank(x["Domain Name"])}
             p    == Cardinality(keep)
         IN  SubSeq(init, 1, p) \o <<x>> \o SubSeq(init, p + 1, Len(init))

-----------------------------------------------------------------------------
(* URLs *)

\* urlparse(f"https://{domain}/vulnerability-disclosure-policy")
CandidateUrl(domain) ==
    [scheme |-> "https", netloc |-> domain, path |-> "/vulnerability-disclosure-policy"]

urlunparse(u) == u.scheme \o "://" \o u.netloc \o u.path

\* Variant: the scheme is left as it was.
ReplaceScheme_Unchanged(u, s) == u

\* url._replace(scheme="http")
ReplaceScheme(u, s) == [u EXCEPT !.scheme = s]

-----------------------------------------------------------------------------
(* The fetch service: UrlHasher.hash_url *)

Statuses == {200, 404}
Hashes == {"abc123"}
RedirectTarget == "https://www.example.gov/vdp"

\* UrlResult values a fetch of `requested` may return: the response of the
\* requested URL itself, or the response reached through a redirect.
UrlResults(requested) ==
    [status : Statuses, visited_url : {requested}, is_redirect : {FALSE}, hash : Hashes]
    \cup
    [status : Statuses, visited_url : {RedirectTarget}, is_redirect : {TRUE}, hash : Hashes]

\* Exceptions hash_url may raise, by the name used in the failure taxonomy.
FailureKinds == {"TLSError", "ConnectionError", "TimeoutError", "OtherError"}

\* Exception classes each kind is an instance of (requests.exceptions:
\* SSLError derives from ConnectionError; everything derives from Exception).
ClassesOf(kind) ==
    CASE kind = "TLSError" -> {"SSLError", "ConnectionError", "Exception"}
      [] kind = "ConnectionError" -> {"ConnectionError", "Exception"}
      [] kind = "TimeoutError" -> {"Timeout", "Exception"}
      [] OTHER -> {"Exception"}

IsFailure(r) == r \in [raised : FailureKinds]

FetchOutcomes(requested) == UrlResults(requested) \cup [raised : FailureKinds]

-----------------------------------------------------------------------------
(* check_for_vdp: except clauses, in source order *)

\* Variant: no SSLError clause, so a TLS failure is handled as a ConnectionError.
HttpsExcepts_NoSslClause ==
    << [classes |-> {"ConnectionError", "Timeout"}, to |-> "try_http_outer"],
       [classes |-> {"Exception"}, to |-> "log_failure"] >>

\* Variant: a linear chain, every connection failure retries without verification.
HttpsExcepts_Linear ==
    << [classes |-> {"SSLError", "ConnectionError", "Timeout"}, to |-> "try_unverified"],
       [classes |-> {"Exception"}, to |-> "log_failure"] >>

HttpsExcepts ==
    << [classes |-> {"SSLError"}, to |-> "try_unverified"],
       [classes |-> {"ConnectionError", "Timeout"}, to |-> "try_http_outer"],
       [classes |-> {"Exception"}, to |-> "log_failure"] >>

\* Variant: a timeout of the unverified attempt is retried.
UnverifiedExcepts_Retry ==
    << [classes |-> {"Timeout"}, to |-> "try_unverified"],
       [classes |-> {"ConnectionError"}, to |-> "try_http_inner"],
       [classes |-> {"Exception"}, to |-> "log_failure"] >>

\* Variant: the unverified attempt lacks the except of last resort.
UnverifiedExcepts_NoLastResort ==
    << [classes |-> {"ConnectionError", "Timeout"}, to |-> "try_http_inner"] >>

\* Variant: the unverified attempt has only the except of last resort.
UnverifiedExcepts_NoFallback ==
    << [classes |-> {"Exception"}, to |-> "log_failure"] >>

UnverifiedExcepts ==
    << [classes |-> {"ConnectionError", "Timeout"}, to |-> "try_http_inner"],
       [classes |-> {"Exception"}, to |-> "log_failure"] >>

\* Variant: the HTTP attempt catches connection failures only.
HttpExcepts_Narrow ==
    << [classes |-> {"ConnectionError", "Timeout"}, to |-> "log_failure"] >>

HttpExcepts ==
    << [classes |-> {"Exception"}, to |-> "log_failure"] >>

\* The first clause that matches the raised exception; none: it propagates.
Dispatch(excepts, kind) ==
    LET hits == {j \in 1..Len(excepts) : excepts[j].classes \cap ClassesOf(kind) # {}}
    IN  IF hits = {} THEN "propagate"
        ELSE excepts[CHOOSE j \in hits : \A m \in hits : j <= m].to

LogRec(level, msg, arg) == [level |-> level, msg |-> msg, arg |-> arg]

\* Variant: the failure is reported at debug level only.
LogVdpFailure_DebugOnly(domain, kind) ==
    << LogRec("debug", "Unable to retrieve hash for", domain),
       LogRec("debug", "Caught", kind),
       LogRec("debug", "err", kind) >>

\* _log_vdp_failure(domain, err)
LogVdpFailure(domain, kind) ==
    << LogRec("warning", "Unable to retrieve hash for", domain),
       LogRec("debug", "Caught", kind),
       LogRec("debug", "err", kind) >>

\* What the handler reached by `target` logs before its own try block.
HandlerLog(target, domain, kind) ==
    CASE target = "try_unverified" ->
            << LogRec("warning", "Falling back to HTTPS without TLS verification for", domain) >>
      [] target \in {"try_http_inner", "try_http_outer"} ->
            << LogRec("warning", "Falling back to HTTP for", domain) >>
      [] target = "log_failure" -> LogVdpFailure(domain, kind)
      [] OTHER -> << >>

\* Control position after the handler's logging.
AfterHandler(target) ==
    CASE target = "log_failure" -> "return"
      [] target = "propagate" -> "raised"
      [] OTHER -> target

\* One try block: result = self._hasher.hash_url(requested, verify) guarded by excepts.
TryFetch(requested, verify, excepts, r) ==
    /\ calls' = Append(calls, [url |-> requested, verify |-> verify, outcome |-> r])
    /\ IF IsFailure(r)
       THEN LET target == Dispatch(excepts, r.raised)
            IN  /\ result' = result
                /\ log' = log \o HandlerLog(target, domain_info["Domain Name"], r.raised)
                /\ pc' = AfterHandler(target)
       ELSE /\ result' = r
            /\ log' = log
            /\ pc' = "return"
    /\ UNCHANGED <<domains_to_scan, queue, i, domain_info, url, vdp_result,
                   agency_results, domain_results, csv_out>>
    /\ UNCHANGED replay_vars

\* Variant: the hash is returned whatever the status.
Outcome_KeepsHash(res) ==
    IF res = None THEN <<"", FALSE, FALSE, "">>
    ELSE IF res.status = 200
         THEN <<res.visited_url, res.is_redirect, TRUE, res.hash>>
         ELSE <<res.visited_url, res.is_redirect, FALSE, res.hash>>

\* Variant: any truthy status counts as a published policy.
Outcome_AnyStatus(res) ==
    IF res = None THEN <<"", FALSE, FALSE, "">>
    ELSE IF res.status # 0
         THEN <<res.visited_url, res.is_redirect, TRUE, res.hash>>
         ELSE <<res.visited_url, res.is_redirect, FALSE, "">>

\* The tuple check_for_vdp returns for a given value of result.
Outcome(res) ==
    IF res = None THEN <<"", FALSE, FALSE, "">>
    ELSE IF res.status = 200
         THEN <<res.visited_url, res.is_redirect, TRUE, res.hash>>
         ELSE <<res.visited_url, res.is_redirect, FALSE, "">>

-----------------------------------------------------------------------------
(* add_domain_result *)

\* Factory of the defaultdict: every counter at zero.
NewTally == [k \in {agency_csv_header[j] : j \in 2..Len(agency_csv_header)} |-> 0]

\* Variant: the factory hands out one dict, shared by all agencies.
Incr_SharedTally(tallies, agency, key) ==
    LET cur == IF DOMAIN tallies = {} THEN NewTally
               ELSE tallies[CHOOSE x \in DOMAIN tallies : TRUE]
    IN  [b \in DOMAIN tallies \cup {agency} |-> [cur EXCEPT ![key] = @ + 1]]

\* self.agency_results[agency][key] += 1, creating the entry when missing.
Incr(tallies, agency, key) ==
    LET d == IF agency \in DOMAIN tallies THEN tallies ELSE (agency :> NewTally) @@ tallies
    IN  [d EXCEPT ![agency][key] = @ + 1]

IncrIf(cond, tallies, agency, key) ==
    IF cond THEN Incr(tallies, agency, key) ELSE tallies

\* Variant: any non-empty contact counts, the "(blank)" sentinel included.
AddTallies_NoSentinel(tallies, r) ==
    LET a  == DR_agency(r)
        t1 == Incr(tallies, a, "Total Domains")
        t2 == IncrIf(Truthy(DR_security_contact(r)),
                     t1, a, "Domains with Security Contact Listed")
        t3 == IncrIf(Truthy(DR_organization(r)),
                     t2, a, "Domains with Organization Listed")
        t4 == IncrIf(DR_agency(r) = DR_organization(r),
                     t3, a, "Domains with Matching Organization and Agency")
        t5 == IncrIf(DR_vdp_present(r),
                     t4, a, "Domains with Published VDP")
    IN  t5

\* Variant: the total is counted only for domains with a published policy.
AddTallies_TotalWithVdp(tallies, r) ==
    LET a  == DR_agency(r)
        t1 == IncrIf(DR_vdp_present(r), tallies, a, "Total Domains")
        t2 == IncrIf(Truthy(DR_security_contact(r))
                       /\ DR_security_contact(r) # MISSING_SECURITY_CONTACT,
                     t1, a, "Domains with Security Contact Listed")
        t3 == IncrIf(Truthy(DR_organization(r)),
                     t2, a, "Domains with Organization Listed")
        t4 == IncrIf(DR_agency(r) = DR_organization(r),
                     t3, a, "Domains with Matching Organization and Agency")
        t5 == IncrIf(DR_vdp_present(r),
                     t4, a, "Domains with Published VDP")
    IN  t5

\* Variant: "organization listed" is counted under the organization's name.
AddTallies_ListedUnderOrganization(tallies, r) ==
    LET a  == DR_agency(r)
        t1 == Incr(tallies, a, "Total Domains")
        t2 == IncrIf(Truthy(DR_security_contact(r))
                       /\ DR_security_contact(r) # MISSING_SECURITY_CONTACT,
                     t1, a, "Domains with Security Contact Listed")
        t3 == IncrIf(Truthy(DR_organization(r)),
                     t2, DR_organization(r), "Domains with Organization Listed")
        t4 == IncrIf(DR_agency(r) = DR_organization(r),
                     t3, a, "Domains with Matching Organization and Agency")
        t5 == IncrIf(DR_vdp_present(r),
                     t4, a, "Domains with Published VDP")
    IN  t5

\* Variant: "organization listed" is counted when the organization is missing.
AddTallies_ListedInverted(tallies, r) ==
    LET a  == DR_agency(r)
        t1 == Incr(tallies, a, "Total Domains")
        t2 == IncrIf(Truthy(DR_security_contact(r))
                       /\ DR_security_contact(r) # MISSING_SECURITY_CONTACT,
                     t1, a, "Domains with Security Contact Listed")
        t3 == IncrIf(~Truthy(DR_organization(r)),
                     t2, a, "Domains with Organization Listed")
        t4 == IncrIf(DR_agency(r) = DR_organization(r),
                     t3, a, "Domains with Matching Organization and Agency")
        t5 == IncrIf(DR_vdp_present(r),
                     t4, a, "Domains with Published VDP")
    IN  t5

\* The five counter updates of add_domain_result, in source order.
AddTallies(tallies, r) ==
    LET a  == DR_agency(r)
        t1 == Incr(tallies, a, "Total Domains")
        t2 == IncrIf(Truthy(DR_security_contact(r))
                       /\ DR_security_contact(r) # MISSING_SECURITY_CONTACT,
                     t1, a, "Domains with Security Contact Listed")
        t3 == IncrIf(Truthy(DR_organization(r)),
                     t2, a, "Domains with Organization Listed")
        t4 == IncrIf(DR_agency(r) = DR_organization(r),
                     t3, a, "Domains with Matching Organization and Agency")
        t5 == IncrIf(DR_vdp_present(r),
                     t4, a, "Domains with Published VDP")
    IN  t5

\* Variant: the two containers are class attributes, shared by every instance.
VdpScanner_init_Shared(prior) ==
    IF prior = None THEN [agency_results |-> << >>, domain_results |-> << >>]
    ELSE [agency_results |-> prior.agency_results, domain_results |-> prior.domain_results]

\* VdpScanner.__init__: the containers of a new scanner, whatever an earlier
\* scanner (prior, None when there was none) ended with.
VdpScanner_init(prior) ==
    [agency_results |-> << >>, domain_results |-> << >>]

\* Variant: a result without a visited URL gets no row.
add_domain_result_SkipsUnreachable(r) ==
    /\ domain_results' = IF r[5] = "" THEN domain_results
                         ELSE Append(domain_results, ZipDict(domain_csv_header, r))
    /\ agency_results' = AddTallies(agency_results, r)

\* Body of add_domain_result(r): append the row, then update the tallies.
add_domain_result(r) ==
    /\ domain_results' = Append(domain_results, ZipDict(domain_csv_header, r))
    /\ agency_results' = AddTallies(agency_results, r)

-----------------------------------------------------------------------------
(* State machine *)

Init ==
    /\ domains_to_scan \in SeqsUpTo(DomainRecords, MaxDomains)
    /\ queue = SortedByName(domains_to_scan)
    /\ i = 1
    /\ pc = "main"
    /\ domain_info = None
    /\ url = None
    /\ result = None
    /\ vdp_result = << >>
    /\ calls = << >>
    /\ log = << >>
    /\ agency_results = VdpScanner_init(None).agency_results
    /\ domain_results = VdpScanner_init(None).domain_results
    /\ csv_out = << >>
    /\ feed = << >>
    /\ run = 1
    /\ previous = None

\* main() loop head, process_domain entry and the first two lines of check_for_vdp.
ProcessDomain ==
    /\ pc = "main"
    /\ i <= Len(queue)
    /\ domain_info' = queue[i]
    /\ log' = Append(log, LogRec("info", "Processing", queue[i]["Domain Name"]))
    /\ url' = CandidateUrl(queue[i]["Domain Name"])
    /\ result' = None
    /\ vdp_result' = << >>
    /\ pc' = "try_https"
    /\ UNCHANGED <<domains_to_scan, queue, i, calls, agency_results, domain_results, csv_out>>
    /\ UNCHANGED replay_vars

\* Outer try: HTTPS with verification.
TryHttps ==
    /\ pc = "try_https"
    /\ \E r \in FetchOutcomes(urlunparse(url)) :
          TryFetch(urlunparse(url), TRUE, HttpsExcepts, r)

\* Handler of SSLError: HTTPS without verification.
TryUnverified ==
    /\ pc = "try_unverified"
    /\ \E r \in FetchOutcomes(urlunparse(url)) :
          TryFetch(urlunparse(url), FALSE, UnverifiedExcepts, r)

\* Handler of ConnectionError/Timeout inside the SSLError handler: HTTP.
TryHttpInner ==
    /\ pc = "try_http_inner"
    /\ \E r \in FetchOutcomes(urlunparse(ReplaceScheme(url, "http"))) :
          TryFetch(urlunparse(ReplaceScheme(url, "http")), TRUE, HttpExcepts, r)

\* Handler of ConnectionError/Timeout of the outer try: HTTP.
TryHttpOuter ==
    /\ pc = "try_http_outer"
    /\ \E r \in FetchOutcomes(urlunparse(ReplaceScheme(url, "http"))) :
          TryFetch(urlunparse(ReplaceScheme(url, "http")), TRUE, HttpExcepts, r)

\* check_for_vdp returns to process_domain.
ReturnOutcome ==
    /\ pc = "return"
    /\ vdp_result' = Outcome(result)
    /\ pc' = "add"
    /\ UNCHANGED <<domains_to_scan, queue, i, domain_info, url, result, calls, log,
                   agency_results, domain_results, csv_out>>
    /\ UNCHANGED replay_vars

\* Variant: the loop moves on without recording the result.
AddDomainResult_NotRecorded ==
    /\ pc = "add"
    /\ i' = i + 1
    /\ pc' = "main"
    /\ url' = None
    /\ result' = None
    /\ vdp_result' = << >>
    /\ calls' = << >>
    /\ log' = << >>
    /\ UNCHANGED <<domains_to_scan, queue, domain_info, csv_out, agency_results,
                   domain_results>>
    /\ UNCHANGED replay_vars

\* process_domain builds the DomainResult and add_domain_result records it.
AddDomainResult ==
    /\ pc = "add"
    /\ LET r == DomainResult(domain_info["Domain Name"], domain_info["Agency"],
                             domain_info["Organization"],
                             domain_info["Security Contact Email"], vdp_result)
       IN  add_domain_result(r)
    /\ i' = i + 1
    /\ pc' = "main"
    /\ url' = None
    /\ result' = None
    /\ vdp_result' = << >>
    /\ calls' = << >>
    /\ log' = << >>
    /\ UNCHANGED <<domains_to_scan, queue, domain_info, csv_out>>
    /\ UNCHANGED replay_vars

\* output_all_csvs, first half.
OutputAgencyCsv ==
    /\ pc = "main"
    /\ i > Len(queue)
    /\ csv_out' = Append(csv_out, [file |-> "agency_csv", header |-> agency_csv_header,
                                   rows |-> agency_results])
    /\ pc' = "output_domain_csv"
    /\ UNCHANGED <<domains_to_scan, queue, i, domain_info, url, result, vdp_result,
                   calls, log, agency_results, domain_results>>
    /\ UNCHANGED replay_vars

\* output_all_csvs, second half.
OutputDomainCsv ==
    /\ pc = "output_domain_csv"
    /\ csv_out' = Append(csv_out, [file |-> "domain_csv", header |-> domain_csv_header,
                                   rows |-> domain_results])
    /\ pc' = "done"
    /\ UNCHANGED <<domains_to_scan, queue, i, domain_info, url, result, vdp_result,
                   calls, log, agency_results, domain_results>>
    /\ UNCHANGED replay_vars

Next ==
    \/ ProcessDomain
    \/ TryHttps
    \/ TryUnverified
    \/ TryHttpInner
    \/ TryHttpOuter
    \/ ReturnOutcome
    \/ AddDomainResult
    \/ OutputAgencyCsv
    \/ OutputDomainCsv

Spec == Init /\ [][Next]_vars

\* main() is one thread of straight-line code and every hash_url call returns
\* or raises (a timeout is one of its failures): a step that can be taken is taken.
FairSpec == Spec /\ WF_vars(Next)

-----------------------------------------------------------------------------
(* Replay: the same DomainResults recorded by two scanners, one after the other *)

\* Tuples check_for_vdp can return for a domain.
OutcomesFor(domain) ==
    {Outcome(r) : r \in {None}
                        \cup UrlResults(urlunparse(CandidateUrl(domain)))
                        \cup UrlResults(urlunparse(ReplaceScheme(CandidateUrl(domain), "http")))}

\* DomainResults process_domain can build.
FeedItems ==
    UNION { { DomainResult(rec["Domain Name"], rec["Agency"], rec["Organization"],
                           rec["Security Contact Email"], o) :
              o \in OutcomesFor(rec["Domain Name"]) } : rec \in DomainRecords }

ReplayInit ==
    /\ feed \in SeqsUpTo(FeedItems, MaxDomains)
    /\ run = 1
    /\ previous = None
    /\ i = 1
    /\ pc = "replay"
    /\ agency_results = VdpScanner_init(None).agency_results
    /\ domain_results = VdpScanner_init(None).domain_results
    /\ domains_to_scan = << >>
    /\ queue = << >>
    /\ domain_info = None
    /\ url = None
    /\ result = None
    /\ vdp_result = << >>
    /\ calls = << >>
    /\ log = << >>
    /\ csv_out = << >>

\* scanner.add_domain_result(feed[i])
ReplayAdd ==
    /\ pc = "replay"
    /\ i <= Len(feed)
    /\ add_domain_result(feed[i])
    /\ i' = i + 1
    /\ UNCHANGED <<feed, run, previous>>
    /\ UNCHANGED main_vars

\* The first run is over: a second scanner is constructed for the same feed.
ReplayNextRun ==
    /\ pc = "replay"
    /\ i > Len(feed)
    /\ run = 1
    /\ LET ended   == [agency_results |-> agency_results, domain_results |-> domain_results]
           scanner == VdpScanner_init(ended)
       IN  /\ previous' = ended
           /\ agency_results' = scanner.agency_results
           /\ domain_results' = scanner.domain_results
    /\ run' = 2
    /\ i' = 1
    /\ UNCHANGED feed
    /\ UNCHANGED main_vars

ReplayNext ==
    \/ ReplayAdd
    \/ ReplayNextRun

SpecReplay == ReplayInit /\ [][ReplayNext]_vars

-----------------------------------------------------------------------------
(* Vocabulary of the properties *)

EmptyOutcome == <<"", FALSE, FALSE, "">>

HttpsUrlOf(domain) == "https://" \o domain \o "/vulnerability-disclosure-policy"
HttpUrlOf(domain) == "http://" \o domain \o "/vulnerability-disclosure-policy"

CurrentDomain == domain_info["Domain Name"]

\* The check has finished (its tuple may not have been handed over yet).
CheckOver == pc \in {"return", "add"}

Raised(c, kinds) == IsFailure(c.outcome) /\ c.outcome.raised \in kinds
Succeeded(c) == ~IsFailure(c.outcome)

\* The status mapping as the specification words it.
StatusMapping(r) ==
    IF r.status = 200 THEN <<r.visited_url, r.is_redirect, TRUE, r.hash>>
    ELSE <<r.visited_url, r.is_redirect, FALSE, "">>

HttpCalls == {j \in 1..Len(calls) : calls[j].url = HttpUrlOf(CurrentDomain)}

-----------------------------------------------------------------------------
(* Properties of check_for_vdp *)

\* C1: whatever each fetch of the chain does (a result or any of the four
\* failure kinds), check_for_vdp never lets an exception escape, and the value
\* it returns is a 4-tuple (str, bool, bool, str).
C1_NeverPropagates ==
    /\ pc # "raised"
    /\ pc = "add" =>
          /\ Len(vdp_result) = 4
          /\ vdp_result[1] \in STRING
          /\ vdp_result[2] \in BOOLEAN
          /\ vdp_result[3] \in BOOLEAN
          /\ vdp_result[4] \in STRING

\* A check returned after three fetches that all failed, the last with OtherError.
C1_Witness ==
    /\ pc = "add"
    /\ Len(calls) = 3
    /\ \A j \in 1..3 : IsFailure(calls[j].outcome)
    /\ calls[3].outcome.raised = "OtherError"

\* C2: when the verified HTTPS fetch raises TLSError and the unverified HTTPS
\* fetch succeeds, the check ends there: the second fetch was the same https
\* URL with verification off, no http fetch is made, and the tuple returned is
\* the status mapping of the unverified result.
C2_FallbackPrecedence ==
    (/\ Len(calls) >= 2
     /\ calls[1].verify
     /\ Raised(calls[1], {"TLSError"})
     /\ Succeeded(calls[2]))
    => /\ Len(calls) = 2
       /\ calls[2].url = HttpsUrlOf(CurrentDomain)
       /\ calls[2].verify = FALSE
       /\ HttpCalls = {}
       /\ CheckOver
       /\ result = calls[2].outcome
       /\ pc = "add" => vdp_result = StatusMapping(calls[2].outcome)

C2_Witness ==
    /\ pc = "add"
    /\ Len(calls) = 2
    /\ Raised(calls[1], {"TLSError"})
    /\ Succeeded(calls[2])
    /\ calls[2].outcome.status = 200
    /\ vdp_result[3]

\* C3: when the verified HTTPS fetch raises ConnectionError or TimeoutError,
\* the check makes exactly one more fetch, of the http URL; no fetch is made
\* with verification off; and if the http fetch fails, whatever the kind, the
\* check returns the all-empty/false tuple.
C3_BypassEdge ==
    (/\ Len(calls) >= 1
     /\ Raised(calls[1], {"ConnectionError", "TimeoutError"}))
    => /\ pc \in {"try_http_outer", "return", "add"}
       /\ (pc = "try_http_outer") = (Len(calls) = 1)
       /\ Len(calls) <= 2
       /\ \A j \in 1..Len(calls) : calls[j].verify
       /\ Len(calls) = 2 => calls[2].url = HttpUrlOf(CurrentDomain)
       /\ (Len(calls) = 2 /\ IsFailure(calls[2].outcome)) =>
             /\ result = None
             /\ pc = "add" => vdp_result = EmptyOutcome

C3_Witness ==
    /\ pc = "add"
    /\ Len(calls) = 2
    /\ Raised(calls[1], {"TimeoutError"})
    /\ Raised(calls[2], {"TLSError"})
    /\ vdp_result = EmptyOutcome

\* What follows a failure of the unverified fetch (second fetch, after a
\* TLSError of the first) when the kinds in toHttp lead to the http attempt
\* and every other kind ends the check with the all-empty/false tuple.
Stage3Decides(toHttp) ==
    (/\ Len(calls) >= 2
     /\ Raised(calls[1], {"TLSError"})
     /\ IsFailure(calls[2].outcome))
    => IF calls[2].outcome.raised \in toHttp
       THEN /\ pc \in {"try_http_inner", "return", "add"}
            /\ (pc = "try_http_inner") = (Len(calls) = 2)
            /\ Len(calls) = 3 => calls[3].url = HttpUrlOf(CurrentDomain)
       ELSE /\ Len(calls) = 2
            /\ HttpCalls = {}
            /\ CheckOver
            /\ result = None
            /\ pc = "add" => vdp_result = EmptyOutcome

\* C4 as stated: at the unverified fetch, ConnectionError and TimeoutError lead
\* to the http attempt; TLSError and OtherError end the check with the
\* all-empty/false tuple and no http fetch.
C4_Original == Stage3Decides({"ConnectionError", "TimeoutError"})

\* C4 amended: at the unverified fetch, ConnectionError, TimeoutError and
\* TLSError (an SSLError is a ConnectionError) lead to the http attempt; only
\* OtherError ends the check with the all-empty/false tuple and no http fetch.
C4_Stage3Taxonomy == Stage3Decides({"ConnectionError", "TimeoutError", "TLSError"})

\* A second TLSError was followed by the http fetch.
C4_Witness ==
    /\ Len(calls) = 3
    /\ Raised(calls[1], {"TLSError"})
    /\ Raised(calls[2], {"TLSError"})
    /\ calls[3].url = HttpUrlOf(CurrentDomain)

\* C5: every tuple check_for_vdp returns, and every row recorded from one,
\* satisfies: a non-empty hash implies vdp_present, and vdp_present implies a
\* non-empty visited URL.
C5_OutcomeInvariant ==
    /\ pc = "add" =>
          /\ vdp_result[4] # "" => vdp_result[3]
          /\ vdp_result[3] => vdp_result[1] # ""
    /\ \A j \in 1..Len(domain_results) :
          /\ domain_results[j]["VDP Hash"] # "" => domain_results[j]["VDP is Published"]
          /\ domain_results[j]["VDP is Published"] => domain_results[j]["Visited URL"] # ""

\* Returned tuples of all three shapes have been recorded or are about to be:
\* policy present with a hash, a page that is not a policy, and nothing fetched.
C5_Witness ==
    /\ pc = "add"
    /\ vdp_result[3] /\ vdp_result[4] # "" /\ vdp_result[1] # ""
    /\ \E j \in 1..Len(domain_results) :
          /\ ~domain_results[j]["VDP is Published"]
          /\ domain_results[j]["Visited URL"] # ""
          /\ domain_results[j]["VDP Hash"] = ""

\* The fetch that succeeded in the current check, if any: always the last one.
LastCall == calls[Len(calls)]

\* C6: when a fetch of the chain succeeds, at whichever stage, the tuple
\* returned is (visited_url, is_redirect, TRUE, hash) of that fetch's result if
\* its status is exactly 200, and (visited_url, is_redirect, FALSE, "") for
\* any other status.
C6_StatusMapping ==
    (pc = "add" /\ Len(calls) >= 1 /\ Succeeded(LastCall))
    => LET r == LastCall.outcome
       IN  /\ vdp_result[1] = r.visited_url
           /\ vdp_result[2] = r.is_redirect
           /\ vdp_result[3] = (r.status = 200)
           /\ vdp_result[4] = (IF r.status = 200 THEN r.hash ELSE "")

\* A redirected 404 answer of the unverified fetch was mapped.
C6_Witness ==
    /\ pc = "add"
    /\ Len(calls) = 2
    /\ Succeeded(LastCall)
    /\ LastCall.outcome.status = 404
    /\ LastCall.outcome.is_redirect
    /\ vdp_result = <<RedirectTarget, TRUE, FALSE, "">>

Warnings == {j \in 1..Len(log) : log[j].level = "warning"}

FailureWarnings ==
    {j \in Warnings : log[j].msg = "Unable to retrieve hash for" /\ log[j].arg = CurrentDomain}

\* Every fetch of the finished check failed, with one of the given kinds.
Exhausted(kinds) ==
    /\ CheckOver
    /\ Len(calls) >= 1
    /\ \A j \in 1..Len(calls) : Raised(calls[j], kinds)

\* C7 as stated: when every attempted fetch fails with ConnectionError,
\* TimeoutError or OtherError, the check returns ("", false, false, "") and
\* exactly one warning is logged during the check.
C7_Original ==
    Exhausted({"ConnectionError", "TimeoutError", "OtherError"})
    => /\ result = None
       /\ pc = "add" => vdp_result = EmptyOutcome
       /\ Cardinality(Warnings) = 1

\* C7 amended: when every attempted fetch fails with ConnectionError,
\* TimeoutError or OtherError, the check returns ("", false, false, "") and
\* the failure warning "Unable to retrieve hash" is logged exactly once for
\* the domain, as the last warning; each fallback taken logs one more warning
\* before it, so the warnings of the check number as many as its fetches.
C7_ExhaustedChain ==
    Exhausted({"ConnectionError", "TimeoutError", "OtherError"})
    => /\ result = None
       /\ pc = "add" => vdp_result = EmptyOutcome
       /\ Cardinality(FailureWarnings) = 1
       /\ \A j \in Warnings : \A k \in FailureWarnings : j <= k
       /\ Cardinality(Warnings) = Len(calls)

\* ConnectionError, then OtherError on http: two warnings, one of them the failure's.
C7_Witness ==
    /\ pc = "add"
    /\ Len(calls) = 2
    /\ Raised(calls[1], {"ConnectionError"})
    /\ Raised(calls[2], {"OtherError"})
    /\ Cardinality(Warnings) = 2
    /\ Cardinality(FailureWarnings) = 1

\* C8: when the verified fetch raises TLSError, the unverified fetch raises
\* ConnectionError or TimeoutError and the http fetch succeeds, the first two
\* fetches were of the https URL, the third of the same host and path under
\* http, and the tuple returned is the status mapping of the http result.
C8_ThreeStageChain ==
    (/\ Len(calls) = 3
     /\ Raised(calls[1], {"TLSError"})
     /\ Raised(calls[2], {"ConnectionError", "TimeoutError"})
     /\ Succeeded(calls[3]))
    => /\ calls[1].url = HttpsUrlOf(CurrentDomain) /\ calls[1].verify
       /\ calls[2].url = HttpsUrlOf(CurrentDomain) /\ ~calls[2].verify
       /\ calls[3].url = HttpUrlOf(CurrentDomain)
       /\ CheckOver
       /\ result = calls[3].outcome
       /\ pc = "add" => vdp_result = StatusMapping(calls[3].outcome)

\* Scenario B: TLSError, ConnectionError, then 404 over http without redirect.
C8_Witness ==
    /\ pc = "add"
    /\ Len(calls) = 3
    /\ Raised(calls[1], {"TLSError"})
    /\ Raised(calls[2], {"ConnectionError"})
    /\ Succeeded(calls[3])
    /\ calls[3].outcome.status = 404
    /\ vdp_result = <<HttpUrlOf(CurrentDomain), FALSE, FALSE, "">>

-----------------------------------------------------------------------------
(* Properties of add_domain_result *)

AllAgencies == {rec["Agency"] : rec \in DomainRecords}

TallyKeys == {"Total Domains",
              "Domains with Security Contact Listed",
              "Domains with Organization Listed",
              "Domains with Matching Organization and Agency",
              "Domains with Published VDP"}

\* Rows of the domain-result sequence that belong to agency a.
RowsOf(a) == {j \in 1..Len(domain_results) : domain_results[j]["Agency"] = a}

\* The five counts of agency a, recomputed from the rows.
Recount(a) ==
    [k \in TallyKeys |->
        CASE k = "Total Domains" -> Cardinality(RowsOf(a))
          [] k = "Domains with Security Contact Listed" ->
                Cardinality({j \in RowsOf(a) :
                    /\ domain_results[j]["Security Contact Email"] # ""
                    /\ domain_results[j]["Security Contact Email"] # "(blank)"})
          [] k = "Domains with Organization Listed" ->
                Cardinality({j \in RowsOf(a) : domain_results[j]["Organization"] # ""})
          [] k = "Domains with Matching Organization and Agency" ->
                Cardinality({j \in RowsOf(a) : domain_results[j]["Organization"] = a})
          [] OTHER ->
                Cardinality({j \in RowsOf(a) : domain_results[j]["VDP is Published"]})]

\* Counter k of agency a in tallies t, zero when the agency has no entry.
CounterOf(t, a, k) == IF a \in DOMAIN t THEN t[a][k] ELSE 0

CountersMatchRows ==
    /\ DOMAIN agency_results \subseteq AllAgencies
    /\ \A a \in AllAgencies :
          IF a \in DOMAIN agency_results
          THEN agency_results[a] = Recount(a)
          ELSE RowsOf(a) = {}

CountersStepByOne ==
    \A a \in AllAgencies : \A k \in TallyKeys :
        CounterOf(agency_results', a, k) - CounterOf(agency_results, a, k) \in {0, 1}

\* C9: after any sequence of add_domain_result calls, the five counters of
\* each agency equal the counts recomputed from the recorded rows of that
\* agency (total; contact non-empty and not "(blank)"; organization non-empty;
\* organization equal to agency; vdp present), an agency without an entry has
\* no rows, and no step raises any counter by more than 1.
C9_CountersMatchRows == [](CountersMatchRows) /\ [][CountersStepByOne]_vars

\* Scenario D: two rows of ACME with matching organization, one with a policy.
C9_Witness ==
    /\ "ACME" \in DOMAIN agency_results
    /\ agency_results["ACME"]["Total Domains"] = 2
    /\ agency_results["ACME"]["Domains with Matching Organization and Agency"] = 2
    /\ agency_results["ACME"]["Domains with Published VDP"] = 1

\* C10: in every state and for every agency with a tally, contact-listed and
\* VDP-published are at most the total, and all five counters are naturals.
C10_CounterConsistency ==
    \A a \in DOMAIN agency_results :
        /\ DOMAIN agency_results[a] = TallyKeys
        /\ \A k \in TallyKeys : agency_results[a][k] \in Nat
        /\ agency_results[a]["Domains with Security Contact Listed"]
              <= agency_results[a]["Total Domains"]
        /\ agency_results[a]["Domains with Published VDP"]
              <= agency_results[a]["Total Domains"]

\* An agency with two domains, one with a real contact, and one with a policy.
C10_Witness ==
    \E a \in DOMAIN agency_results :
        /\ agency_results[a]["Total Domains"] = 2
        /\ agency_results[a]["Domains with Security Contact Listed"] = 1
        /\ agency_results[a]["Domains with Published VDP"] = 1

-----------------------------------------------------------------------------
(* Properties of separate runs *)

\* C11: a newly constructed scanner has no tallies and no rows, in the first
\* run and in the second; and when the second run has recorded the same feed
\* as the first, its tallies and its rows are those the first run ended with.
C11_NoRunToRunLeakage ==
    /\ (pc = "replay" /\ i = 1) => (agency_results = << >> /\ domain_results = << >>)
    /\ (pc = "replay" /\ run = 2 /\ i > Len(feed)) =>
          /\ agency_results = previous.agency_results
          /\ domain_results = previous.domain_results

\* The second run has recorded a feed of two results of one agency.
C11_Witness ==
    /\ pc = "replay"
    /\ run = 2
    /\ Len(feed) = 2
    /\ i > Len(feed)
    /\ \E a \in DOMAIN agency_results : agency_results[a]["Total Domains"] = 2
    /\ Len(previous.domain_results) = 2

-----------------------------------------------------------------------------
(* Properties of the run *)

AllRecorded == i > Len(queue) /\ Len(domain_results) = Len(domains_to_scan)

BothTablesWritten ==
    /\ Len(csv_out) = 2
    /\ csv_out[1].file = "agency_csv" /\ csv_out[1].rows = agency_results
    /\ csv_out[2].file = "domain_csv" /\ csv_out[2].rows = domain_results

\* C12: whatever the fetches do, the run reaches its end; at its end every
\* domain of the list has been recorded and both CSV tables have been written;
\* nothing is written before the last domain is recorded; and no failure of a
\* fetch stops the run.
C12_RunCompletes ==
    /\ <>(pc = "done")
    /\ [](pc = "done" => (AllRecorded /\ BothTablesWritten))
    /\ [](csv_out # << >> => AllRecorded)
    /\ [](pc # "raised")

\* The run is over, with two domains or more and every one of them unreachable.
C12_Witness ==
    /\ pc = "done"
    /\ BothTablesWritten
    /\ Len(domain_results) >= 2
    /\ \A j \in 1..Len(domain_results) : domain_results[j]["Visited URL"] = ""

NameOf(rec) == rec["Domain Name"]

NonDecreasingNames(names) ==
    \A j, k \in 1..Len(names) : j < k => NameRank(names[j]) <= NameRank(names[k])

DistinctNames(xs) ==
    \A j, k \in 1..Len(xs) : j # k => NameOf(xs[j]) # NameOf(xs[k])

\* The orders in which the source could have supplied the records of xs.
Reorderings(xs) ==
    {[j \in 1..Len(xs) |-> xs[f[j]]] : f \in Permutations(1..Len(xs))}

\* C13: the records are processed in non-decreasing order of domain name,
\* whatever order the source supplied them in: the processing order is a
\* reordering of the supplied list, row j of the results is the row of the
\* j-th record of that order, so the rows are sorted by domain name; and when
\* the names are distinct every reordering of the supplied list is processed
\* in the same order.
C13_SortedProcessing ==
    /\ queue \in Reorderings(domains_to_scan)
    /\ NonDecreasingNames([j \in 1..Len(queue) |-> NameOf(queue[j])])
    /\ pc \in {"try_https", "try_unverified", "try_http_inner", "try_http_outer",
               "return", "add"} => domain_info = queue[i]
    /\ Len(domain_results) <= Len(queue)
    /\ \A j \in 1..Len(domain_results) :
          /\ domain_results[j]["Domain"] = NameOf(queue[j])
          /\ domain_results[j]["Agency"] = queue[j]["Agency"]
          /\ domain_results[j]["Organization"] = queue[j]["Organization"]
          /\ domain_results[j]["Security Contact Email"] = queue[j]["Security Contact Email"]
    /\ NonDecreasingNames([j \in 1..Len(domain_results) |-> domain_results[j]["Domain"]])
    /\ DistinctNames(domains_to_scan) =>
          \A ys \in Reorderings(domains_to_scan) : SortedByName(ys) = queue

\* A list supplied in descending order of name has been processed in ascending order.
C13_Witness ==
    /\ pc = "done"
    /\ Len(domains_to_scan) = 2
    /\ NameOf(domains_to_scan[1]) = "c.gov"
    /\ NameOf(domains_to_scan[2]) = "a.gov"
    /\ domain_results[1]["Domain"] = "a.gov"
    /\ domain_results[2]["Domain"] = "c.gov"

ChainStates == {"try_https", "try_unverified", "try_http_inner", "try_http_outer", "return"}

\* A step that makes a fetch, and a step that changes the aggregator.
FetchStep == Len(calls') = Len(calls) + 1
AggregatorStep == agency_results' # agency_results \/ domain_results' # domain_results

\* C14: a fetch is made only for the record at the loop's position, when every
\* record before it has been recorded and it has not; the aggregator changes
\* only in the step that records that record, after its check has returned,
\* and that step moves the loop to the next record; no step taken while a
\* fallback chain is in progress changes the aggregator.
C14_StrictSequencing ==
    [][ /\ FetchStep =>
              /\ i <= Len(queue)
              /\ Len(domain_results) = i - 1
              /\ calls'[Len(calls')].url \in {HttpsUrlOf(NameOf(queue[i])),
                                              HttpUrlOf(NameOf(queue[i]))}
              /\ UNCHANGED <<i, agency_results, domain_results>>
        /\ AggregatorStep =>
              /\ pc = "add" /\ pc' = "main"
              /\ calls # << >>
              /\ Len(domain_results) = i - 1
              /\ Len(domain_results') = i
              /\ domain_results'[i]["Domain"] = NameOf(queue[i])
              /\ i' = i + 1
        /\ pc \in ChainStates => UNCHANGED <<agency_results, domain_results>>
      ]_vars

\* The check of the second record is under way, the first record is recorded.
C14_Witness ==
    /\ i = 2
    /\ pc = "try_http_inner"
    /\ Len(calls) = 2
    /\ Len(domain_results) = 1

-----------------------------------------------------------------------------
(* Shape of the fallback chain *)

\* The fetch mode of a call of the current check.
ModeOf(c) ==
    IF c.url = HttpUrlOf(CurrentDomain) /\ c.verify THEN "http"
    ELSE IF c.url = HttpsUrlOf(CurrentDomain) /\ c.verify THEN "https_verified"
    ELSE IF c.url = HttpsUrlOf(CurrentDomain) /\ ~c.verify THEN "https_unverified"
    ELSE "other"

\* C15: a check makes between 1 and 3 fetches; the first is HTTPS with
\* verification; every fetch is one of the three modes and no mode is used
\* twice; an http fetch is the last fetch; every fetch but the last failed,
\* and after a fetch has succeeded no further fetch is pending.
C15_AttemptBounds ==
    /\ Len(calls) <= 3
    /\ CheckOver => Len(calls) >= 1
    /\ Len(calls) >= 1 => ModeOf(calls[1]) = "https_verified"
    /\ \A j \in 1..Len(calls) :
          /\ ModeOf(calls[j]) \in {"https_verified", "https_unverified", "http"}
          /\ \A k \in 1..Len(calls) : j # k => ModeOf(calls[j]) # ModeOf(calls[k])
          /\ ModeOf(calls[j]) = "http" => j = Len(calls)
          /\ j < Len(calls) => IsFailure(calls[j].outcome)
          /\ Succeeded(calls[j]) => CheckOver

\* A check that used all three modes, the http fetch succeeding.
C15_Witness ==
    /\ pc = "add"
    /\ Len(calls) = 3
    /\ ModeOf(calls[2]) = "https_unverified"
    /\ ModeOf(calls[3]) = "http"
    /\ Succeeded(calls[3])

-----------------------------------------------------------------------------
(* Rows and tallies *)

RECURSIVE SumOfTotals(_)
SumOfTotals(agencies) ==
    IF agencies = {} THEN 0
    ELSE LET a == CHOOSE x \in agencies : TRUE
         IN  agency_results[a]["Total Domains"] + SumOfTotals(agencies \ {a})

EightFields(row) ==
    /\ DOMAIN row = {domain_csv_header[j] : j \in 1..Len(domain_csv_header)}
    /\ Cardinality(DOMAIN row) = 8

\* The row add_domain_result makes of the record in hand and the tuple returned for it.
RowInHand ==
    [k \in DOMAIN domain_results'[Len(domain_results')] |->
        CASE k = "Domain" -> domain_info["Domain Name"]
          [] k = "Agency" -> domain_info["Agency"]
          [] k = "Organization" -> domain_info["Organization"]
          [] k = "Security Contact Email" -> domain_info["Security Contact Email"]
          [] k = "Visited URL" -> vdp_result[1]
          [] k = "Was it Redirected" -> vdp_result[2]
          [] k = "VDP is Published" -> vdp_result[3]
          [] OTHER -> vdp_result[4]]

\* C16: every recording step appends exactly one row of 8 fields (the four of
\* the record, then the four of the returned tuple) at the end of the
\* sequence, whatever the tuple, and leaves the earlier rows as they were; so
\* after n records the sequence has n rows, and n is the sum of "Total
\* Domains" over the agencies.
C16_OneRowPerRecord ==
    /\ [](/\ Len(domain_results) = i - 1
          /\ \A j \in 1..Len(domain_results) : EightFields(domain_results[j])
          /\ SumOfTotals(DOMAIN agency_results) = Len(domain_results))
    /\ [][ (pc = "add" \/ domain_results' # domain_results) =>
              /\ pc = "add"
              /\ Len(domain_results') = Len(domain_results) + 1
              /\ SubSeq(domain_results', 1, Len(domain_results)) = domain_results
              /\ EightFields(domain_results'[Len(domain_results')])
              /\ domain_results'[Len(domain_results')] = RowInHand
          ]_vars

\* Two records of the same domain name have been recorded, the first unreachable.
C16_Witness ==
    /\ Len(domain_results) = 2
    /\ domain_results[1]["Domain"] = domain_results[2]["Domain"]
    /\ domain_results[1]["Visited URL"] = ""
    /\ domain_results[1]["VDP Hash"] = ""
    /\ ~domain_results[1]["VDP is Published"]

\* Agencies of the records the loop has finished with.
ProcessedAgencies == {queue[j]["Agency"] : j \in 1..(i - 1)}

\* C17: an agency has a tally exactly when a record of that agency has been
\* processed; every tally has "Total Domains" >= 1; and no step removes a tally.
C17_LazyTallies ==
    /\ [](/\ DOMAIN agency_results = ProcessedAgencies
          /\ \A a \in DOMAIN agency_results : agency_results[a]["Total Domains"] >= 1)
    /\ [][DOMAIN agency_results \subseteq DOMAIN agency_results']_vars

\* Two agencies have a tally, a third agency of the input set has none.
C17_Witness ==
    /\ Len(queue) = 2
    /\ pc = "done"
    /\ DOMAIN agency_results = {"ACME", "NASA"}
    /\ "" \in AllAgencies \ DOMAIN agency_results

\* Tally of agency b is the same, or as absent, before and after the step.
TallyUntouched(b) ==
    /\ (b \in DOMAIN agency_results) = (b \in DOMAIN agency_results')
    /\ b \in DOMAIN agency_results => agency_results'[b] = agency_results[b]

\* C18: the step that records a result of agency A leaves the tally of every
\* other agency as it was; and the steps of check_for_vdp, from its entry to
\* its return, at any stage and on any failure, leave the tallies and the
\* rows as they were.
C18_Frame ==
    [][ /\ pc = "add" =>
              \A b \in (AllAgencies \cup DOMAIN agency_results')
                        \ {domain_info["Agency"]} : TallyUntouched(b)
        /\ (pc \in ChainStates \/ pc' \in ChainStates) =>
              UNCHANGED <<agency_results, domain_results>>
      ]_vars

\* A result of NASA has been recorded after one of ACME, whose tally still counts one.
C18_Witness ==
    /\ Len(domain_results) = 2
    /\ domain_results[1]["Agency"] = "ACME"
    /\ domain_results[2]["Agency"] = "NASA"
    /\ agency_results["ACME"]["Total Domains"] = 1
    /\ agency_results["NASA"]["Total Domains"] = 1

\* Ordering of the organization counters of agency a, for the agencies in scope.
OrgCountersOrdered(a) ==
    agency_results[a]["Domains with Matching Organization and Agency"]
        <= agency_results[a]["Domains with Organization Listed"]

\* C19 as stated: for every agency, the empty name included,
\* matches <= listed <= total.
C19_Original ==
    \A a \in DOMAIN agency_results :
        /\ OrgCountersOrdered(a)
        /\ agency_results[a]["Domains with Organization Listed"]
              <= agency_results[a]["Total Domains"]

\* C19 amended: for every agency, listed <= total and matches <= total; and
\* for every agency whose name is not empty, matches <= listed.
C19_OrgCounters ==
    \A a \in DOMAIN agency_results :
        /\ agency_results[a]["Domains with Organization Listed"]
              <= agency_results[a]["Total Domains"]
        /\ agency_results[a]["Domains with Matching Organization and Agency"]
              <= agency_results[a]["Total Domains"]
        /\ a # "" => OrgCountersOrdered(a)

\* The agency with the empty name counts a match and no listed organization,
\* next to a named agency whose counters are ordered strictly.
C19_Witness ==
    /\ "" \in DOMAIN agency_results
    /\ agency_results[""]["Domains with Matching Organization and Agency"] = 1
    /\ agency_results[""]["Domains with Organization Listed"] = 0
    /\ "NASA" \in DOMAIN agency_results
    /\ agency_results["NASA"]["Domains with Matching Organization and Agency"] = 0
    /\ agency_results["NASA"]["Domains with Organization Listed"] = 1

====
